---- MODULE Spec2Model ----
(***************************************************************************)
(* Credential lifecycle and token refresh of jira-monitor-v2.              *)
(*                                                                         *)
(* Spec      : the scheduled triggers (handleInterval, checkAndRefresh-    *)
(*             Token) and the on-demand fetch of JiraQueueMonitorService,  *)
(*             with AuthService.refreshAccessToken, against a provider     *)
(*             that rotates refresh tokens.  Every await of the code is a  *)
(*             suspension point, so every await is the border between two  *)
(*             actions.                                                    *)
(* SpecStore : the operations of JiraCredentialRepository called with      *)
(*             inputs drawn from small sets; upsertCredentials is two      *)
(*             steps (findOne, save) because it awaits between them.       *)
(* SpecAuth  : install and the OAuth callback with the session store.      *)
(* SpecBatch, SpecLifecycle, SpecAccepting : the same actions with the     *)
(*             invocations run one at a time, with an authorization before *)
(*             them, and against a provider that accepts the grants.       *)
(* SpecTriage: ProcessIssuesUseCase.execute applied to one input.          *)
(*                                                                         *)
(* Tokens are numbers: 0 is an absent (falsy) token, n > 0 is the n-th     *)
(* token the provider issued.  Times are milliseconds, as in the code.     *)
(***************************************************************************)
EXTENDS Integers, Sequences, FiniteSets, TLC

\* ------------------------------------------------------------------ bounds
\* number of invocations (ticks and on-demand fetches) of one behaviour
MaxProcs == 2
\* number of steps the clock may advance
MaxClock == 1
\* number of concurrent upsertCredentials calls (SpecStore)
MaxUpserts == 2
\* number of direct repository calls of one behaviour (SpecStore)
MaxOps == 2
\* number of GET /oauth/callback requests of one behaviour (SpecAuth)
MaxCalls == 2
\* number of GET /jira/auth/install requests of one behaviour (SpecAuth)
MaxNonces == 2
\* length of the issues array handed to execute (SpecTriage)
MaxIssues == 2

\* --------------------------------------------------------- program constants
REFRESH_BUFFER_MS == 60 * 1000

\* The clock advances in steps of half a buffer, so that a credential can be
\* above, exactly at, and below the buffer.
ClockStep == REFRESH_BUFFER_MS \div 2

\* userId = 'default' of the scheduled triggers; the on-demand fetch takes any.
DefaultUser == "default"
UserIds == {"default", "u2"}

\* expires_in (seconds) a token response may carry
ExpiresInChoices == {30, 90}

SomeExpiresIn == CHOOSE e \in ExpiresInChoices : TRUE

Procs == 1..MaxProcs
Upserts == 1..MaxUpserts

\* ------------------------------------------------------------------- values
NoCred ==
  [id |-> 0, userId |-> "", cloudId |-> "", accessToken |-> 0,
   refreshToken |-> 0, expiresAt |-> 0]

ErrResp == [kind |-> "err", access_token |-> 0, refresh_token |-> 0, expires_in |-> 0]

OkResp(at, rt, e) ==
  [kind |-> "ok", access_token |-> at, refresh_token |-> rt, expires_in |-> e]

\* ------------------------------------------------ JiraCredentialRepository
\* repo.findOne({ where: { userId } }): one of the rows of that userId (the
\* query has no ORDER BY), or null.
FindByUserId(tbl, userId) ==
  IF \E r \in tbl : r.userId = userId
    THEN {r \in tbl : r.userId = userId}
    ELSE {NoCred}

\* updateData of updateAccessToken: refreshToken is written only when a new
\* one was passed (if (newRefreshToken) ...).
UpdateDataMutNoRefresh(row, newAccessToken, newExpiresAt, newRefreshToken) ==
  [row EXCEPT !.accessToken = newAccessToken, !.expiresAt = newExpiresAt]

UpdateDataMutClobber(row, newAccessToken, newExpiresAt, newRefreshToken) ==
  [row EXCEPT !.accessToken = newAccessToken, !.expiresAt = newExpiresAt,
              !.refreshToken = newRefreshToken]

UpdateDataMutTenant(row, newAccessToken, newExpiresAt, newRefreshToken) ==
  [row EXCEPT !.accessToken = newAccessToken, !.expiresAt = newExpiresAt,
              !.refreshToken = newRefreshToken, !.cloudId = ""]

UpdateData(row, newAccessToken, newExpiresAt, newRefreshToken) ==
  IF newRefreshToken # 0
    THEN [row EXCEPT !.accessToken = newAccessToken, !.expiresAt = newExpiresAt,
                     !.refreshToken = newRefreshToken]
    ELSE [row EXCEPT !.accessToken = newAccessToken, !.expiresAt = newExpiresAt]

\* repo.update({ userId }, updateData): one UPDATE ... WHERE userId = :userId
UpdateAccessTokenMutDrop(tbl, userId, newAccessToken, newExpiresAt, newRefreshToken) ==
  {r \in tbl : r.userId # userId}

UpdateAccessTokenMutUpsert(tbl, userId, newAccessToken, newExpiresAt, newRefreshToken) ==
  IF \E r \in tbl : r.userId = userId
    THEN {IF r.userId = userId
            THEN UpdateData(r, newAccessToken, newExpiresAt, newRefreshToken)
            ELSE r : r \in tbl}
    ELSE tbl \cup {[id |-> 1, userId |-> userId, cloudId |-> "",
                    accessToken |-> newAccessToken,
                    refreshToken |-> newRefreshToken,
                    expiresAt |-> newExpiresAt]}

UpdateAccessToken(tbl, userId, newAccessToken, newExpiresAt, newRefreshToken) ==
  {IF r.userId = userId
     THEN UpdateData(r, newAccessToken, newExpiresAt, newRefreshToken)
     ELSE r : r \in tbl}

\* repo.delete({ userId })
DeleteByUserId(tbl, userId) == {r \in tbl : r.userId # userId}

\* repo.save(entity): an UPDATE of the row with the entity's id, an INSERT
\* when no row has it.
SaveMutInsertOnly(tbl, entity) == tbl \cup {entity}

Save(tbl, entity) == {r \in tbl : r.id # entity.id} \cup {entity}

\* ------------------------------------------------------ ProcessIssuesUseCase
\* An element of rawJson.issues is an object (type "object": key, status for
\* fields.status.name, "" when the name is missing, and created for
\* fields.created, "" when it is missing), null (type "null"), or a primitive
\* such as a string (type "string").
\*
\* String.prototype.trim().toLowerCase() on the status names of the model
\* ("concluido" stands for the accented word of the source).
Normalize(s) ==
  CASE s = "Open"        -> "open"
    [] s = "Em Aberto"   -> "em aberto"
    [] s = "Resolvido"   -> "resolvido"
    [] s = " RESOLVIDO " -> "resolvido"
    [] s = "Cancelado"   -> "cancelado"
    [] s = "In Progress" -> "in progress"
    [] s = "Resolved"    -> "resolved"
    [] s = "RESOLVED"    -> "resolved"
    [] s = "Done"        -> "done"
    [] s = "Reopened"    -> "reopened"
    [] OTHER             -> s

ToLowerCase(s) ==
  CASE s = " RESOLVIDO " -> " resolvido "
    [] OTHER             -> Normalize(s)

statusesToExclude == {"resolvido", "concluido", "cancelado"}

\* the filter of execute: issue.fields?.status?.name || '' ("" is a missing name)
Retained(issue) == Normalize(issue.status) \notin statusesToExclude

\* A JavaScript value of the result: the integer v, NaN, or a string.
Num(v) == [type |-> "number", nan |-> FALSE, v |-> v]

NaN == [type |-> "number", nan |-> TRUE, v |-> 0]

Str == [type |-> "string", nan |-> FALSE, v |-> 0]

\* 1000 * 60 * 60 * 24
DayMs == 1000 * 60 * 60 * 24

\* new Date(createdStr).getTime() on the creation timestamps of the model:
\* the milliseconds since the epoch of a string that parses as a date, NaN
\* (an Invalid Date) of any other string.
GetTime(createdStr) ==
  CASE createdStr = "1970-01-01T00:00:00.000Z" -> Num(0)
    [] createdStr = "1970-01-02T12:00:00.000Z" -> Num(DayMs + DayMs \div 2)
    [] OTHER -> NaN

\* Math.floor(diffMs / (1000 * 60 * 60 * 24)) with diffMs = now - createdTime
FloorDays(createdTime, t) ==
  IF createdTime.nan THEN NaN ELSE Num((t - createdTime.v) \div DayMs)

\* timeOpenDays of the map: 0 unless `created` is truthy; created is null
\* for an empty createdStr and a Date object, valid or not, for any other.
TimeOpenDays(createdStr, t) ==
  IF createdStr = "" THEN Num(0) ELSE FloorDays(GetTime(createdStr), t)

\* the map of execute: status = fields.status?.name || 'UNKNOWN', and
\* timeOpenDays at t, the Date.now() of the call
MapIssue(issue, t) ==
  [key |-> issue.key,
   status |-> IF issue.status = "" THEN "UNKNOWN" ELSE issue.status,
   timeOpenDays |-> TimeOpenDays(issue.created, t)]

RECURSIVE FilterMap(_, _)
FilterMap(issues, t) ==
  IF issues = <<>> THEN <<>>
  ELSE IF Retained(Head(issues))
    THEN <<MapIssue(Head(issues), t)>> \o FilterMap(Tail(issues), t)
    ELSE FilterMap(Tail(issues), t)

\* names that the object literal {} inherits from Object.prototype
InheritedNames == {"constructor", "toString", "valueOf", "hasOwnProperty"}

\* statusCounts[st] = (statusCounts[st] || 0) + 1 over the mapped issues,
\* statusCounts being the object literal {}: for a name it does not hold yet
\* the read gives undefined and the count starts at 1, except for a name it
\* inherits, where the read gives a function, which is truthy, and `+ 1`
\* concatenates: the entry is a string from then on.
StatusCounts(mappedIssues) ==
  [st \in {mappedIssues[i].status : i \in DOMAIN mappedIssues} |->
     IF st \in InheritedNames
       THEN Str
       ELSE Num(Cardinality({i \in DOMAIN mappedIssues : mappedIssues[i].status = st}))]

\* { total: 0, issues: [], statusCounts: {} }
EmptyResult ==
  [threw |-> FALSE, total |-> 0, issues |-> <<>>, statusCounts |-> StatusCounts(<<>>)]

\* execute rejected with the TypeError of reading `fields` of null
TypeErrorThrown == [EmptyResult EXCEPT !.threw = TRUE]

\* execute(rawJson): the empty result when rawJson is falsy or rawJson.issues
\* is no array. The callback of filter reads issue.fields, which throws on a
\* null element; nothing is returned then. t is what Date.now() returns.
Execute(rawJson, t) ==
  IF ~rawJson.present \/ ~rawJson.isArray
    THEN EmptyResult
  ELSE IF \E i \in DOMAIN rawJson.issues : rawJson.issues[i].type = "null"
    THEN TypeErrorThrown
  ELSE [threw |-> FALSE,
        total |-> Len(FilterMap(rawJson.issues, t)),
        issues |-> FilterMap(rawJson.issues, t),
        statusCounts |-> StatusCounts(FilterMap(rawJson.issues, t))]

\* st.includes(sub) on the lower-cased status names of the model
Includes(st, sub) ==
  CASE sub = "open"   -> st \in {"open", "reopened"}
    [] sub = "aberto" -> st \in {"em aberto"}
    [] OTHER          -> FALSE

\* st.includes('open') || st.includes('aberto') on the lower-cased status
IsOpenMutExact(issue) ==
  ToLowerCase(issue.status) \in {"open", "aberto"}

IsOpen(issue) ==
  Includes(ToLowerCase(issue.status), "open")
    \/ Includes(ToLowerCase(issue.status), "aberto")

RECURSIVE OpenKeys(_)
OpenKeys(issues) ==
  IF issues = <<>> THEN <<>>
  ELSE IF IsOpen(Head(issues))
    THEN <<Head(issues).key>> \o OpenKeys(Tail(issues))
    ELSE OpenKeys(Tail(issues))

\* an issue object as the search endpoint returns it
Issue(key, status, created) ==
  [type |-> "object", key |-> key, status |-> status, created |-> created]

\* bodies the search endpoint may answer with
SearchPayloads ==
  { [present |-> TRUE, isArray |-> FALSE, issues |-> <<>>],
    [present |-> TRUE, isArray |-> TRUE, issues |-> <<Issue("K1", "In Progress", "1970-01-01T00:00:00.000Z"),
                  Issue("K6", "Reopened", "1970-01-01T00:00:00.000Z")>>],
    [present |-> TRUE, isArray |-> TRUE,
     issues |-> <<Issue("K2", " RESOLVIDO ", "1970-01-01T00:00:00.000Z"),
                  Issue("K3", "Em Aberto", "1970-01-01T00:00:00.000Z")>>],
    [present |-> TRUE, isArray |-> TRUE,
     issues |-> <<Issue("K4", "Open", "1970-01-01T00:00:00.000Z"),
                  Issue("K5", "Em Aberto", "")>>] }

\* --------------------------------------------------------------- the state
VARIABLES
  table,      \* jira_credentials: a set of rows
  now,        \* Date.now()
  validRT,    \* provider: the refresh tokens it accepts
  tokenGen,   \* provider: number of tokens issued so far
  procs,      \* the invocations of the triggers and of the on-demand fetch
  upserts,    \* the upsertCredentials calls in progress (SpecStore)
  lastOp,     \* the last direct repository call and what it returned (SpecStore)
  nOps,       \* number of direct repository calls made (SpecStore)
  env,        \* process.env: which of the JIRA_* settings are defined (SpecAuth)
  sessions,   \* the session store of express-session (SpecAuth)
  nonceGen,   \* number of states (nonces) install has generated (SpecAuth)
  calls,      \* the GET /oauth/callback requests (SpecAuth)
  executeArg,     \* the argument of ProcessIssuesUseCase.execute (SpecTriage)
  executeResult   \* what that call of execute returned or threw (SpecTriage)

\* the state of the authorization flow
authVars == <<env, sessions, nonceGen, calls>>

\* a call of ProcessIssuesUseCase.execute on its own
triageVars == <<executeArg, executeResult>>

vars ==
  <<table, now, validRT, tokenGen, procs, upserts, lastOp, nOps, authVars, triageVars>>

IdleProc ==
  [kind |-> "none", pc |-> "idle", userId |-> "", caller |-> "none",
   cred |-> NoCred, t0 |-> 0, rtSent |-> 0, grants |-> 0,
   todo |-> <<>>, step |-> 0, failed |-> {}, outcome |-> "none"]

IdleUpsert == [pc |-> "idle", params |-> NoCred, existing |-> NoCred]

NoOp == [op |-> "none", userId |-> "", accessToken |-> 0, expiresAt |-> 0,
         refreshToken |-> 0, found |-> NoCred]

Row(id, userId, cloudId, accessToken, refreshToken, expiresAt) ==
  [id |-> id, userId |-> userId, cloudId |-> cloudId, accessToken |-> accessToken,
   refreshToken |-> refreshToken, expiresAt |-> expiresAt]

\* ------------------------------------------------ the authorization flow: values
Calls == 1..MaxCalls

\* the browser sessions (cookies) that reach the application
SessionIds == {"s1", "s2"}

\* process.env: all JIRA_* settings defined, or one of JIRA_CLIENT_ID,
\* JIRA_CLIENT_SECRET, JIRA_REDIRECT_URI missing (handleCallback tests the
\* three together)
EnvChoices == {"complete", "incomplete"}

\* SessionData: jiraOAuthState 0 is "no state stored", userId "" is "not set"
NoSession ==
  [jiraOAuthState |-> 0, userId |-> "", jiraAccessToken |-> 0,
   jiraRefreshToken |-> 0, jiraCloudId |-> "", jiraExpiresAt |-> 0]

\* what handleCallback returned to the controller (nothing yet)
NoReturn == [accessToken |-> 0, refreshToken |-> 0, cloudId |-> "", expiresIn |-> 0]

\* A callback request: its session id and the state it presents, its session object (the copy express-session loaded
\* for this request), the locals of handleCallback, the requests it sent, and
\* the response: status, error class, the token values in the error message
\* and in the JSON body.
IdleCall ==
  [pc |-> "idle", sid |-> "", returnedState |-> 0, session |-> NoSession,
   userId |-> "",
   tokenData |-> ErrResp, cloudId |-> "", entity |-> NoCred,
   nGrant |-> 0, nRes |-> 0, wrote |-> FALSE,
   status |-> 0, error |-> "none", msgTokens |-> {}, bodyTokens |-> {},
   returned |-> NoReturn]

\* The state after construction: no invocation runs; the table is empty or
\* holds the credential of 'default' that an earlier authorization stored
\* (token 1, expiring below, at, or above the refresh buffer).
InitAuthIdle ==
  /\ sessions = [sid \in SessionIds |-> NoSession]
  /\ nonceGen = 0
  /\ calls = [c \in Calls |-> IdleCall]

\* execute is not being called on its own
NoArg == [present |-> FALSE, isArray |-> FALSE, issues |-> <<>>]

NotReturned == [EmptyResult EXCEPT !.total = -1]

InitTriageIdle ==
  /\ executeArg = NoArg
  /\ executeResult = NotReturned

\* the credential table, the provider and the invocations after construction
InitTables ==
  /\ tokenGen = 1
  /\ \/ table = {} /\ validRT = {}
     \/ \E e \in {ClockStep, 2 * ClockStep, 3 * ClockStep} :
          /\ table = {Row(1, DefaultUser, "T1", 1, 1, e)}
          /\ validRT = {1}
  /\ procs = [p \in Procs |-> IdleProc]
  /\ upserts = [u \in Upserts |-> IdleUpsert]
  /\ lastOp = NoOp
  /\ nOps = 0

\* ... and the clock is at its origin
InitCredentials ==
  /\ now = 0
  /\ InitTables

Init ==
  /\ env = "complete"
  /\ InitAuthIdle
  /\ InitTriageIdle
  /\ InitCredentials

\* ------------------------------------------------- JiraQueueMonitorService
\* if (msLeft < this.REFRESH_BUFFER_MS)
NeedsRefreshMutInclusive(expiresAtTime, t) == expiresAtTime - t <= REFRESH_BUFFER_MS

NeedsRefresh(expiresAtTime, t) == expiresAtTime - t < REFRESH_BUFFER_MS

\* An invocation that ended: its locals are gone, how it ended is kept.
Done(q, outcome) ==
  [IdleProc EXCEPT !.pc = "done", !.outcome = outcome]

\* fetchAndProcessIssues threw: handleInterval logs and rethrows, the
\* controller answers 500.
FetchThrown(q, why) == Done(q, why)

\* GET /jira/monitor/fetch: the controller returns the result (200) or turns
\* whatever fetchAndProcessIssues threw into InternalServerErrorException.
FetchStatus(outcome) == IF outcome = "ok" THEN 200 ELSE 500

\* fetchAndProcessIssues is entered: findByUserId is awaited.
EnterFetchMutSkipCheck(q) ==
  [q EXCEPT !.pc = "search", !.caller = "none", !.cred = NoCred, !.rtSent = 0]

EnterFetch(q) ==
  [q EXCEPT !.pc = "fch_find", !.caller = "none", !.cred = NoCred, !.rtSent = 0]

\* checkAndRefreshToken returned (it never throws): the 50-minute trigger is
\* over, handleInterval goes on to fetchAndProcessIssues.
AfterCheck(q) ==
  IF q.kind = "check" THEN Done(q, "ok") ELSE EnterFetch(q)

\* step 4-5 of fetchAndProcessIssues: the GET of the search is sent with
\* Bearer cred.accessToken.
SendSearch(q) ==
  [q EXCEPT !.pc = "search", !.caller = "none", !.t0 = 0, !.rtSent = 0, !.grants = 0]

\* refreshAccessToken is called: its findByUserId is awaited.
CallRefresh(q, caller) ==
  [q EXCEPT !.pc = "r_find", !.caller = caller]

\* refreshAccessToken threw into the catch of its caller: both callers log
\* the error and go on (checkAndRefreshToken returns, fetchAndProcessIssues
\* goes on to the search with the credential it read).
RefreshThrown(q) ==
  IF q.caller = "check"
    THEN AfterCheck(q)
    ELSE SendSearch(q)

\* refreshAccessToken returned to its caller. fetchAndProcessIssues copies the
\* new tokens into its credential, with expiresAt from the `now` it read
\* before the refresh.
RefreshReturned(q, resp) ==
  IF q.caller = "check"
    THEN AfterCheck(q)
    ELSE SendSearch([q EXCEPT !.cred = [q.cred EXCEPT
                                  !.accessToken = resp.access_token,
                                  !.refreshToken = resp.refresh_token,
                                  !.expiresAt = q.t0 + resp.expires_in * 1000]])

\* fetchAndProcessIssues found no credential (if (!cred) throw ...)
FetchNoCredentialMutContinue(q) == SendSearch(q)

FetchNoCredential(q) == FetchThrown(q, "no_credentials")

\* A trigger fires or a GET /jira/monitor/fetch arrives. Invocations are
\* numbered in the order they start.
Start(p) ==
  /\ procs[p].pc = "idle"
  /\ \A q \in Procs : q < p => procs[q].pc # "idle"
  /\ \E kind \in {"interval", "check", "fetch"} :
     \E userId \in UserIds :
       /\ kind # "fetch" => userId = DefaultUser
       /\ procs' = [procs EXCEPT ![p] =
            [IdleProc EXCEPT !.kind = kind, !.userId = userId,
                             !.pc = IF kind = "fetch" THEN "fch_find" ELSE "chk_find"]]
  /\ UNCHANGED <<table, now, validRT, tokenGen, upserts, lastOp, nOps, authVars, triageVars>>

\* checkAndRefreshToken after `await findByUserId`
CheckFound(p) ==
  /\ procs[p].pc = "chk_find"
  /\ \E cred \in FindByUserId(table, procs[p].userId) :
       procs' = [procs EXCEPT ![p] =
         IF cred = NoCred THEN AfterCheck(@)
         ELSE IF NeedsRefresh(cred.expiresAt, now) THEN CallRefresh(@, "check")
         ELSE AfterCheck(@)]
  /\ UNCHANGED <<table, now, validRT, tokenGen, upserts, lastOp, nOps, authVars, triageVars>>

\* fetchAndProcessIssues after `await findByUserId`
FetchFound(p) ==
  /\ procs[p].pc = "fch_find"
  /\ \E cred \in FindByUserId(table, procs[p].userId) :
       procs' = [procs EXCEPT ![p] =
         IF cred = NoCred THEN FetchNoCredential(@)
         ELSE IF NeedsRefresh(cred.expiresAt, now)
           THEN CallRefresh([@ EXCEPT !.cred = cred, !.t0 = now], "fetch")
         ELSE SendSearch([@ EXCEPT !.cred = cred, !.t0 = now])]
  /\ UNCHANGED <<table, now, validRT, tokenGen, upserts, lastOp, nOps, authVars, triageVars>>

\* ------------------------------------------------------------- AuthService
\* step 5 of refreshAccessToken: the response must carry both tokens
\* (if (!newData.access_token || !newData.refresh_token) throw ...).
TokenDataCompleteMutUnchecked(newData) == TRUE

TokenDataComplete(newData) ==
  newData.access_token # 0 /\ newData.refresh_token # 0

\* steps 6-7 of refreshAccessToken: newExpiresAt = Date.now() + expires_in * 1000
\* and one updateAccessToken call with the three new values.
StoreRefreshedMutSeconds(tbl, userId, newData, t) ==
  UpdateAccessToken(tbl, userId, newData.access_token,
                    t + newData.expires_in, newData.refresh_token)

StoreRefreshedMutSplit(tbl, userId, newData, t) ==
  UpdateAccessToken(tbl, userId, newData.access_token,
                    t + newData.expires_in * 1000, 0)

StoreRefreshed(tbl, userId, newData, t) ==
  UpdateAccessToken(tbl, userId, newData.access_token,
                    t + newData.expires_in * 1000, newData.refresh_token)

\* refreshAccessToken after `await findByUserId`: without a credential it
\* throws; with one it posts the refresh_token grant carrying the stored
\* refresh token (grants counts the grants this invocation has posted).
RefreshFound(p) ==
  /\ procs[p].pc = "r_find"
  /\ \E existingCred \in FindByUserId(table, procs[p].userId) :
       procs' = [procs EXCEPT ![p] =
         IF existingCred = NoCred THEN RefreshThrown(@)
         ELSE [@ EXCEPT !.pc = "r_grant", !.rtSent = existingCred.refreshToken,
                        !.grants = @ + 1]]
  /\ UNCHANGED <<table, now, validRT, tokenGen, upserts, lastOp, nOps, authVars, triageVars>>

\* What the provider (auth.atlassian.com/oauth/token) may answer to a grant
\* that presents refresh token rt. It accepts a refresh token once: an
\* accepted grant invalidates the token presented and issues a new pair
\* (rotation). It may also answer an accepted grant without a new refresh
\* token (no rotation) or without any token. A token it does not accept, and
\* a request that fails in transport before it is handled, give an error.
\* Each answer comes with the provider's state after it.
ProviderAnswers(rt) ==
  {[resp |-> OkResp(tokenGen + 1, tokenGen + 1, e),
    valid |-> (validRT \ {rt}) \cup {tokenGen + 1},
    gen |-> tokenGen + 1] : e \in {x \in ExpiresInChoices : rt \in validRT}}
  \cup {[resp |-> r, valid |-> validRT, gen |-> tokenGen] :
          r \in {x \in {OkResp(tokenGen + 1, 0, SomeExpiresIn), OkResp(0, 0, 0)} :
                   rt \in validRT}}
  \cup {[resp |-> ErrResp, valid |-> validRT, gen |-> tokenGen]}

\* refreshAccessToken after `await post(...)`, the provider having handled
\* the grant with answer ans: an error or an incomplete response throws;
\* otherwise the row is updated and the new tokens are returned to the caller.
RefreshReceiveWith(p, ans) ==
  /\ procs[p].pc = "r_grant"
  /\ validRT' = ans.valid
  /\ tokenGen' = ans.gen
  /\ IF ans.resp.kind = "err"
       THEN /\ procs' = [procs EXCEPT ![p] = RefreshThrown(@)]
            /\ UNCHANGED table
     ELSE IF ~TokenDataComplete(ans.resp)
       THEN /\ procs' = [procs EXCEPT ![p] = RefreshThrown(@)]
            /\ UNCHANGED table
     ELSE /\ table' = StoreRefreshed(table, procs[p].userId, ans.resp, now)
          /\ procs' = [procs EXCEPT ![p] = RefreshReturned(@, ans.resp)]
  /\ UNCHANGED <<now, upserts, lastOp, nOps, authVars, triageVars>>

RefreshReceive(p) ==
  \E ans \in ProviderAnswers(procs[p].rtSent) : RefreshReceiveWith(p, ans)

\* ------------------------------------------------- search and post-actions
\* performPostActions sends its calls one after the other:
\* 1 field update, 2 transition 11, 3 transition 131, 4 comment.
LastPostStep == 4

\* the request that is the step-th call of performPostActions: the path below
\* /rest/api/3/issue/{issueKey} and what the payload names
PostCallMutSwapTransitions(step) ==
  CASE step = 1 -> [path |-> "", payload |-> "customfield_11231"]
    [] step = 2 -> [path |-> "/transitions", payload |-> "131"]
    [] step = 3 -> [path |-> "/transitions", payload |-> "11"]
    [] OTHER    -> [path |-> "/comment", payload |-> "body"]

PostCall(step) ==
  CASE step = 1 -> [path |-> "", payload |-> "customfield_11231"]
    [] step = 2 -> [path |-> "/transitions", payload |-> "11"]
    [] step = 3 -> [path |-> "/transitions", payload |-> "131"]
    [] OTHER    -> [path |-> "/comment", payload |-> "body"]

\* the for loop over openIssues: the first call for the next issue is sent,
\* or fetchAndProcessIssues returns the result.
NextIssue(q, keys) ==
  IF keys = <<>> THEN Done(q, "ok")
  ELSE [q EXCEPT !.pc = "post", !.todo = keys, !.step = 1]

\* fetchAndProcessIssues after `await get(...)`: an error throws; a body is
\* handed to ProcessIssuesUseCase.execute and the open issues get the
\* post-actions with the access token and cloudId of the local credential.
SearchReceive(p) ==
  /\ procs[p].pc = "search"
  /\ \/ procs' = [procs EXCEPT ![p] = FetchThrown(@, "search_failed")]
     \/ \E body \in SearchPayloads :
          procs' = [procs EXCEPT ![p] =
            IF Execute(body, now).threw
              THEN FetchThrown(@, "execute_failed")
              ELSE NextIssue(@, OpenKeys(Execute(body, now).issues))]
  /\ UNCHANGED <<table, now, validRT, tokenGen, upserts, lastOp, nOps, authVars, triageVars>>

\* A call of performPostActions failed: the catch logs the issue and
\* performPostActions returns; the for loop goes on with the next issue.
PostFailedMutThrow(q) == FetchThrown(q, "post_failed")

PostFailedMutContinue(q) ==
  IF q.step = LastPostStep
    THEN NextIssue([q EXCEPT !.failed = @ \cup {Head(q.todo)}], Tail(q.todo))
    ELSE [q EXCEPT !.failed = @ \cup {Head(q.todo)}, !.step = @ + 1]

PostFailed(q) ==
  NextIssue([q EXCEPT !.failed = @ \cup {Head(q.todo)}], Tail(q.todo))

\* performPostActions after one of its awaits: a failed call is caught and
\* ends the post-actions of this issue, a successful one sends the next.
PostReceive(p) ==
  /\ procs[p].pc = "post"
  /\ \/ procs' = [procs EXCEPT ![p] = PostFailed(@)]
     \/ procs' = [procs EXCEPT ![p] =
          IF procs[p].step = LastPostStep
            THEN NextIssue(@, Tail(procs[p].todo))
            ELSE [@ EXCEPT !.step = @ + 1]]
  /\ UNCHANGED <<table, now, validRT, tokenGen, upserts, lastOp, nOps, authVars, triageVars>>

\* ------------------------------------------------------------ environment
\* time passes
Tick ==
  /\ now < MaxClock * ClockStep
  /\ now' = now + ClockStep
  /\ UNCHANGED <<table, validRT, tokenGen, procs, upserts, lastOp, nOps, authVars, triageVars>>

\* deleteByUserId, the explicit removal of a credential
AdminDelete ==
  /\ \E userId \in UserIds :
       /\ \E r \in table : r.userId = userId
       /\ table' = DeleteByUserId(table, userId)
  /\ UNCHANGED <<now, validRT, tokenGen, procs, upserts, lastOp, nOps, authVars, triageVars>>

\* The rest of fetchAndProcessIssues once the search is sent, run to its
\* end in one step: the search fails or execute throws and the fetch throws,
\* or a body arrives, is processed, and every open issue gets its
\* post-actions, whose failures are caught. None of these steps reads or
\* writes the credential table or the provider, so they commute with the
\* steps of every other invocation; whether execute throws depends on the
\* body alone, not on the clock it reads for timeOpenDays.
SearchOutcomes ==
  {"search_failed"} \cup
    {IF Execute(body, 0).threw THEN "execute_failed" ELSE "ok" : body \in SearchPayloads}

SearchAndPostActions(p) ==
  /\ procs[p].pc = "search"
  /\ \E outcome \in SearchOutcomes :
       procs' = [procs EXCEPT ![p] =
         IF outcome = "ok" THEN Done(@, "ok") ELSE FetchThrown(@, outcome)]
  /\ UNCHANGED <<table, now, validRT, tokenGen, upserts, lastOp, nOps, authVars, triageVars>>

\* time passes while no invocation is running
TickBetween ==
  /\ \A p \in Procs : procs[p].pc \in {"idle", "done"}
  /\ Tick

\* Every step of every invocation, with the clock and the removal of a
\* credential free to interleave anywhere.
Next ==
  \/ \E p \in Procs : Start(p)
  \/ \E p \in Procs : CheckFound(p)
  \/ \E p \in Procs : FetchFound(p)
  \/ \E p \in Procs : RefreshFound(p)
  \/ \E p \in Procs : RefreshReceive(p)
  \/ \E p \in Procs : SearchReceive(p)
  \/ \E p \in Procs : PostReceive(p)
  \/ Tick
  \/ AdminDelete

Spec == Init /\ [][Next]_vars

\* The refresh protocol under every interleaving of the invocations: all the
\* steps that read or write the credential table or talk to the provider are
\* interleaved freely; the tail of a fetch is one step and time passes
\* between bursts of invocations.
NextRefresh ==
  \/ \E p \in Procs : Start(p)
  \/ \E p \in Procs : CheckFound(p)
  \/ \E p \in Procs : FetchFound(p)
  \/ \E p \in Procs : RefreshFound(p)
  \/ \E p \in Procs : RefreshReceive(p)
  \/ \E p \in Procs : SearchAndPostActions(p)
  \/ TickBetween
  \/ AdminDelete

SpecRefresh == Init /\ [][NextRefresh]_vars

\* ------------------------------------- JiraCredentialRepository, called directly
\* what a caller may pass as cloudId, accessToken, refreshToken, expiresAt
CredentialInputs ==
  { [cloudId |-> "T1", accessToken |-> 1, refreshToken |-> 2, expiresAt |-> ClockStep],
    [cloudId |-> "T2", accessToken |-> 3, refreshToken |-> 4, expiresAt |-> 3 * ClockStep] }

\* what a caller may pass to updateAccessToken; refreshToken 0 is "not passed"
UpdateInputs ==
  { [accessToken |-> 5, refreshToken |-> 0, expiresAt |-> 4 * ClockStep],
    [accessToken |-> 5, refreshToken |-> 6, expiresAt |-> 4 * ClockStep] }

\* the uuid the database generates for the row the u-th call inserts
NewId(u) == 10 + u

\* upsertCredentials is called: repo.findOne is awaited.
UpsertCall(u) ==
  /\ upserts[u].pc = "idle"
  /\ \A v \in Upserts : v < u => upserts[v].pc # "idle"
  /\ \E userId \in UserIds, inp \in CredentialInputs :
       upserts' = [upserts EXCEPT ![u] =
         [pc |-> "find", existing |-> NoCred,
          params |-> Row(0, userId, inp.cloudId, inp.accessToken, inp.refreshToken,
                         inp.expiresAt)]]
  /\ UNCHANGED <<table, now, validRT, tokenGen, procs, lastOp, nOps, authVars, triageVars>>

\* upsertCredentials after `await repo.findOne`: the entity to save is the
\* existing row with the four fields replaced, or a new entity (repo.create);
\* repo.save is awaited.
UpsertFound(u) ==
  /\ upserts[u].pc = "find"
  /\ \E existing \in FindByUserId(table, upserts[u].params.userId) :
       upserts' = [upserts EXCEPT ![u] =
         [@ EXCEPT !.pc = "save",
                   !.existing =
                     IF existing # NoCred
                       THEN [existing EXCEPT !.cloudId = upserts[u].params.cloudId,
                                             !.accessToken = upserts[u].params.accessToken,
                                             !.refreshToken = upserts[u].params.refreshToken,
                                             !.expiresAt = upserts[u].params.expiresAt]
                       ELSE [upserts[u].params EXCEPT !.id = NewId(u)]]]
  /\ UNCHANGED <<table, now, validRT, tokenGen, procs, lastOp, nOps, authVars, triageVars>>

\* repo.save has written the entity; upsertCredentials returns it.
UpsertSaved(u) ==
  /\ upserts[u].pc = "save"
  /\ table' = Save(table, upserts[u].existing)
  /\ upserts' = [upserts EXCEPT ![u] = [@ EXCEPT !.pc = "done"]]
  /\ UNCHANGED <<now, validRT, tokenGen, procs, lastOp, nOps, authVars, triageVars>>

\* findByUserId(userId), returning lastOp.found
OpFind ==
  /\ nOps < MaxOps
  /\ \E userId \in UserIds :
     \E found \in FindByUserId(table, userId) :
       lastOp' = [op |-> "find", userId |-> userId, accessToken |-> 0,
                  expiresAt |-> 0, refreshToken |-> 0, found |-> found]
  /\ nOps' = nOps + 1
  /\ UNCHANGED <<table, now, validRT, tokenGen, procs, upserts, authVars, triageVars>>

\* updateAccessToken({userId, newAccessToken, newExpiresAt, newRefreshToken?})
OpUpdate ==
  /\ nOps < MaxOps
  /\ \E userId \in UserIds, inp \in UpdateInputs :
       /\ table' = UpdateAccessToken(table, userId, inp.accessToken, inp.expiresAt,
                                     inp.refreshToken)
       /\ lastOp' = [op |-> "update", userId |-> userId,
                     accessToken |-> inp.accessToken, expiresAt |-> inp.expiresAt,
                     refreshToken |-> inp.refreshToken, found |-> NoCred]
  /\ nOps' = nOps + 1
  /\ UNCHANGED <<now, validRT, tokenGen, procs, upserts, authVars, triageVars>>

\* deleteByUserId(userId)
OpDelete ==
  /\ nOps < MaxOps
  /\ \E userId \in UserIds :
       /\ table' = DeleteByUserId(table, userId)
       /\ lastOp' = [op |-> "delete", userId |-> userId, accessToken |-> 0,
                     expiresAt |-> 0, refreshToken |-> 0, found |-> NoCred]
  /\ nOps' = nOps + 1
  /\ UNCHANGED <<now, validRT, tokenGen, procs, upserts, authVars, triageVars>>

NextStore ==
  \/ \E u \in Upserts : UpsertCall(u)
  \/ \E u \in Upserts : UpsertFound(u)
  \/ \E u \in Upserts : UpsertSaved(u)
  \/ OpFind
  \/ OpUpdate
  \/ OpDelete

\* the table is empty or holds one credential of 'default'
InitStore == Init /\ \A r \in table : r.expiresAt = ClockStep

SpecStore == InitStore /\ [][NextStore]_vars

\* ==================================================== the authorization flow
\* express-session: a request works on its own session object, loaded from
\* the store when the request arrives; a modified session is written back to
\* the store when the response ends.
SaveSession(store, sid, session) == [store EXCEPT ![sid] = session]

\* GET /jira/auth/install, which has no await: a new state is stored in the
\* session, userId is set to 'default' when the session has none, and the
\* response is the redirect (or the 400 of buildAuthorizationUrl when
\* JIRA_CLIENT_ID or JIRA_REDIRECT_URI is missing); either way the response
\* ends and the session is written to the store.
Install ==
  /\ nonceGen < MaxNonces
  /\ nonceGen' = nonceGen + 1
  /\ \E sid \in SessionIds :
       sessions' = SaveSession(sessions, sid,
         [sessions[sid] EXCEPT !.jiraOAuthState = nonceGen + 1,
                               !.userId = IF @ = "" THEN DefaultUser ELSE @])
  /\ UNCHANGED <<table, now, validRT, tokenGen, procs, upserts, lastOp, nOps, env, calls, triageVars>>

\* The callback request ended with an exception: Nest answers with the
\* status of the exception and a body that carries its message.
Responded(call, status, error, msgTokens) ==
  [IdleCall EXCEPT !.pc = "done", !.sid = call.sid,
                   !.returnedState = call.returnedState, !.nGrant = call.nGrant,
                   !.nRes = call.nRes, !.wrote = call.wrote,
                   !.status = status, !.error = error,
                   !.msgTokens = msgTokens, !.bodyTokens = msgTokens]

\* if (!returnedState || returnedState !== originalState)
StateRejectedMutAbsentOnly(returnedState, originalState) == returnedState = 0

StateRejectedMutAnySession(returnedState, originalState) ==
  returnedState = 0 \/ returnedState \notin 1..nonceGen

StateRejected(returnedState, originalState) ==
  returnedState = 0 \/ returnedState # originalState

\* the token values that JSON.stringify(tokenData) shows
TokensIn(tokenData) == {tokenData.access_token, tokenData.refresh_token} \ {0}

\* step 5 of handleCallback: the response must carry both tokens
ExchangeCompleteMutUnchecked(tokenData) == TRUE

ExchangeComplete(tokenData) ==
  tokenData.access_token # 0 /\ tokenData.refresh_token # 0

\* GET /oauth/callback up to its first await. The state is validated against
\* the session and deleted from it, userId is read from the session,
\* handleCallback checks the configuration and posts the authorization_code
\* grant. Each throw ends the request with 400.
CallbackArrive(c) ==
  /\ calls[c].pc = "idle"
  /\ \A d \in Calls : d < c => calls[d].pc # "idle"
  /\ \E sid \in SessionIds, returnedState \in 0..MaxNonces :
       LET session == sessions[sid]
           consumed == [session EXCEPT !.jiraOAuthState = 0]
           call == [calls[c] EXCEPT !.sid = sid, !.returnedState = returnedState]
       IN IF StateRejected(returnedState, session.jiraOAuthState)
            THEN /\ calls' = [calls EXCEPT ![c] = Responded(call, 400, "csrf", {})]
                 /\ UNCHANGED sessions
          ELSE IF session.userId = ""
            THEN /\ calls' = [calls EXCEPT ![c] = Responded(call, 400, "no_user", {})]
                 /\ sessions' = SaveSession(sessions, sid, consumed)
          ELSE IF env # "complete"
            THEN /\ calls' = [calls EXCEPT ![c] = Responded(call, 400, "config", {})]
                 /\ sessions' = SaveSession(sessions, sid, consumed)
          ELSE /\ calls' = [calls EXCEPT ![c] =
                    [call EXCEPT !.pc = "token", !.session = consumed,
                                 !.userId = session.userId, !.nGrant = @ + 1]]
               /\ UNCHANGED sessions
  /\ UNCHANGED <<table, now, validRT, tokenGen, procs, upserts, lastOp, nOps, env, nonceGen, triageVars>>

\* What the provider may answer to the authorization_code grant: a new pair
\* of tokens, a body with only one of the two tokens or with none, or an
\* error (transport or non-2xx). Each answer comes with the provider's
\* state after it. The lifetime of a newly authorized access token is above
\* the refresh buffer (an hour at Atlassian).
ExchangeAnswers ==
  {[resp |-> OkResp(tokenGen + 1, tokenGen + 1, e),
    valid |-> validRT \cup {tokenGen + 1},
    gen |-> tokenGen + 1] : e \in {x \in ExpiresInChoices : x * 1000 > REFRESH_BUFFER_MS}}
  \cup {[resp |-> r, valid |-> validRT, gen |-> tokenGen] :
          r \in {OkResp(tokenGen + 1, 0, SomeExpiresIn),
                 OkResp(0, tokenGen + 1, SomeExpiresIn),
                 OkResp(0, 0, 0),
                 ErrResp}}

\* handleCallback after `await post(...)` of the token request: an error
\* throws InternalServerErrorException; a body without both tokens throws
\* BadRequestException with the body in its message; otherwise the GET of
\* accessible-resources is sent.
TokenReceive(c) ==
  /\ calls[c].pc = "token"
  /\ \E ans \in ExchangeAnswers :
       /\ validRT' = ans.valid
       /\ tokenGen' = ans.gen
       /\ IF ans.resp.kind = "err"
            THEN /\ calls' = [calls EXCEPT ![c] = Responded(@, 500, "upstream", {})]
                 /\ sessions' = SaveSession(sessions, calls[c].sid, calls[c].session)
          ELSE IF ~ExchangeComplete(ans.resp)
            THEN /\ calls' = [calls EXCEPT ![c] =
                      Responded(@, 400, "protocol", TokensIn(ans.resp))]
                 /\ sessions' = SaveSession(sessions, calls[c].sid, calls[c].session)
          ELSE /\ calls' = [calls EXCEPT ![c] =
                    [@ EXCEPT !.pc = "resources", !.tokenData = ans.resp,
                              !.nRes = @ + 1]]
               /\ UNCHANGED sessions
  /\ UNCHANGED <<table, now, procs, upserts, lastOp, nOps, env, nonceGen, triageVars>>

\* what accessible-resources may answer: an error, an empty list, or a list
\* of cloudIds
ResourceAnswers ==
  { [kind |-> "err", data |-> <<>>],
    [kind |-> "ok", data |-> <<>>],
    [kind |-> "ok", data |-> <<"T2", "T1">>] }

\* handleCallback after `await get(...)` of accessible-resources: an error
\* throws InternalServerErrorException, an empty list BadRequestException;
\* otherwise cloudId is the first id, expiresAt is computed and
\* upsertCredentials is called, which awaits findOne.
ResourcesReceive(c) ==
  /\ calls[c].pc = "resources"
  /\ \E resources \in ResourceAnswers :
       IF resources.kind = "err"
         THEN /\ calls' = [calls EXCEPT ![c] = Responded(@, 500, "upstream", {})]
              /\ sessions' = SaveSession(sessions, calls[c].sid, calls[c].session)
       ELSE IF resources.data = <<>>
         THEN /\ calls' = [calls EXCEPT ![c] = Responded(@, 400, "authorization", {})]
              /\ sessions' = SaveSession(sessions, calls[c].sid, calls[c].session)
       ELSE /\ calls' = [calls EXCEPT ![c] =
                 [@ EXCEPT !.pc = "up_find", !.cloudId = Head(resources.data),
                           !.entity = Row(0, calls[c].userId, Head(resources.data),
                                          calls[c].tokenData.access_token,
                                          calls[c].tokenData.refresh_token,
                                          now + calls[c].tokenData.expires_in * 1000)]]
            /\ UNCHANGED sessions
  /\ UNCHANGED <<table, now, validRT, tokenGen, procs, upserts, lastOp, nOps, env, nonceGen, triageVars>>

\* upsertCredentials of the callback after `await repo.findOne`: as UpsertFound
CallbackUpsertFound(c) ==
  /\ calls[c].pc = "up_find"
  /\ \E existing \in FindByUserId(table, calls[c].userId) :
       calls' = [calls EXCEPT ![c] =
         [@ EXCEPT !.pc = "up_save",
                   !.entity =
                     IF existing # NoCred
                       THEN [existing EXCEPT !.cloudId = calls[c].entity.cloudId,
                                             !.accessToken = calls[c].entity.accessToken,
                                             !.refreshToken = calls[c].entity.refreshToken,
                                             !.expiresAt = calls[c].entity.expiresAt]
                       ELSE [calls[c].entity EXCEPT !.id = NewId(MaxUpserts + c)]]]
  /\ UNCHANGED <<table, now, validRT, tokenGen, procs, upserts, lastOp, nOps, env,
                 sessions, nonceGen, triageVars>>

\* repo.save has written the entity: handleCallback puts the tokens into the
\* session and returns accessToken, refreshToken, cloudId and expiresIn; the
\* controller answers 200 with {message, cloudId, expiresIn}.
CallbackUpsertSaved(c) ==
  /\ calls[c].pc = "up_save"
  /\ table' = Save(table, calls[c].entity)
  /\ sessions' = SaveSession(sessions, calls[c].sid,
       [calls[c].session EXCEPT !.jiraAccessToken = calls[c].tokenData.access_token,
                                !.jiraRefreshToken = calls[c].tokenData.refresh_token,
                                !.jiraCloudId = calls[c].cloudId,
                                !.jiraExpiresAt = calls[c].entity.expiresAt])
  /\ calls' = [calls EXCEPT ![c] =
       [IdleCall EXCEPT !.pc = "done", !.sid = calls[c].sid,
                        !.returnedState = calls[c].returnedState,
                        !.nGrant = calls[c].nGrant, !.nRes = calls[c].nRes,
                        !.wrote = TRUE, !.status = 200,
                        !.returned = [accessToken |-> calls[c].tokenData.access_token,
                                      refreshToken |-> calls[c].tokenData.refresh_token,
                                      cloudId |-> calls[c].cloudId,
                                      expiresIn |-> calls[c].tokenData.expires_in]]]
  /\ UNCHANGED <<now, validRT, tokenGen, procs, upserts, lastOp, nOps, env, nonceGen, triageVars>>

NextAuth ==
  \/ Install
  \/ \E c \in Calls : CallbackArrive(c)
  \/ \E c \in Calls : TokenReceive(c)
  \/ \E c \in Calls : ResourcesReceive(c)
  \/ \E c \in Calls : CallbackUpsertFound(c)
  \/ \E c \in Calls : CallbackUpsertSaved(c)

\* any configuration; the table is empty or holds one credential of 'default'
InitAuth ==
  /\ env \in EnvChoices
  /\ InitAuthIdle
  /\ InitTriageIdle
  /\ InitCredentials
  /\ \A r \in table : r.expiresAt = ClockStep

SpecAuth == InitAuth /\ [][NextAuth]_vars

\* ================================================================= claims
\* the rows of one identity
RowsOf(tbl, userId) == {r \in tbl : r.userId = userId}

\* A refresh grant of an identity is in flight from the moment
\* refreshAccessToken posts it until refreshAccessToken has stored or thrown
\* its outcome.
GrantsInFlight(userId) ==
  {p \in Procs : procs[p].pc = "r_grant" /\ procs[p].userId = userId}

\* a refresh-token grant that failed: a transport error or a non-2xx answer,
\* or an answer without access_token
GrantFailed(resp) == resp.kind = "err" \/ resp.access_token = 0

\* invocation p took a step
Moved(p) == procs'[p] # procs[p]

\* C1: single-flight refresh: no two refresh-token grants of one identity
\* are ever in flight at the same time.
C1_SingleFlight ==
  \A userId \in UserIds : Cardinality(GrantsInFlight(userId)) <= 1

\* C2: whenever no refresh grant of an identity is in flight, the
\* refreshToken of its credential row is a refresh token the provider
\* currently accepts.
C2_StoreMatchesProvider ==
  \A userId \in UserIds :
    GrantsInFlight(userId) = {} =>
      \A r \in RowsOf(table, userId) : r.refreshToken \in validRT

\* C2 witness: all invocations are over, the provider has rotated the
\* refresh token twice and the row holds the token of the second rotation.
C2_Witness ==
  /\ \A p \in Procs : procs[p].pc = "done"
  /\ \E r \in table : r.userId = DefaultUser /\ r.refreshToken = 3
  /\ validRT = {3}

\* C3: the step in which a freshness check finds no credential for its
\* identity sends no request: fetchAndProcessIssues ends with the
\* no-credentials error (no grant, no search, no post-action),
\* refreshAccessToken throws without posting the grant, and
\* checkAndRefreshToken does not call refreshAccessToken.
C3_NoCredentialNoRequest ==
  [][\A p \in Procs :
       (Moved(p) /\ RowsOf(table, procs[p].userId) = {}) =>
         /\ procs[p].pc = "fch_find" =>
              procs'[p].pc = "done" /\ procs'[p].outcome = "no_credentials"
         /\ procs[p].pc = "r_find" => procs'[p].pc # "r_grant"
         /\ procs[p].pc = "chk_find" =>
              procs'[p].pc \notin {"r_find", "r_grant", "search", "post"}]_vars

\* C3 witness: a fetch for an identity without a credential has ended with
\* the no-credentials error.
C3_Witness ==
  \E p \in Procs : procs[p].pc = "done" /\ procs[p].outcome = "no_credentials"

\* C4: a freshness check that finds the credential with
\* expiresAt - now >= REFRESH_BUFFER_MS does not call refreshAccessToken
\* (no grant) and leaves the credential table as it is.
C4_FreshNoRefresh ==
  [][\A p \in Procs :
       ( /\ Moved(p)
         /\ procs[p].pc \in {"chk_find", "fch_find"}
         /\ RowsOf(table, procs[p].userId) # {}
         /\ \A r \in RowsOf(table, procs[p].userId) :
              r.expiresAt - now >= REFRESH_BUFFER_MS ) =>
         /\ procs'[p].pc \notin {"r_find", "r_grant"}
         /\ table' = table]_vars

\* C4 witness: a fetch found its credential exactly REFRESH_BUFFER_MS before
\* expiry and went on to the search; the row is the one stored before.
C4_Witness ==
  /\ table = {Row(1, DefaultUser, "T1", 1, 1, 2 * ClockStep)}
  /\ tokenGen = 1
  /\ \E p \in Procs :
       /\ procs[p].pc = "search"
       /\ procs[p].cred.expiresAt - now = REFRESH_BUFFER_MS

\* C5: a refresh whose grant failed changes nothing in the credential table,
\* and the grant a refresh posts carries the refresh token stored at that time.
C5_FailedRefreshLeavesStore ==
  [][\A p \in Procs :
       /\ (procs[p].pc = "r_grant" /\ Moved(p) /\ table' # table) =>
            \A ans \in ProviderAnswers(procs[p].rtSent) :
              RefreshReceiveWith(p, ans) => ~GrantFailed(ans.resp)
       /\ (procs[p].pc = "r_find" /\ procs'[p].pc = "r_grant") =>
            \E r \in RowsOf(table, procs[p].userId) :
              procs'[p].rtSent = r.refreshToken]_vars

\* C5 witness: one invocation met the stale credential and ended, no token
\* was issued and the row is untouched; a second refresh has posted a grant
\* with the same stored refresh token.
C5_Witness ==
  /\ now = 0
  /\ tokenGen = 1
  /\ table = {Row(1, DefaultUser, "T1", 1, 1, ClockStep)}
  /\ \E p, q \in Procs :
       /\ procs[p].pc = "done" /\ procs[p].outcome = "ok"
       /\ procs[q].pc = "r_grant" /\ procs[q].rtSent = 1

\* C6: when the grant of the refresh that a fetch called failed, the fetch
\* ends with the refresh failure; it does not go on to the search.
C6_RefreshFailureSurfaced ==
  [][\A p \in Procs :
       \A ans \in ProviderAnswers(procs[p].rtSent) :
         ( /\ RefreshReceiveWith(p, ans)
           /\ procs[p].caller = "fetch"
           /\ GrantFailed(ans.resp) ) =>
           procs'[p].pc = "done" /\ procs'[p].outcome = "refresh_failed"]_vars

\* C7: a refresh response with an access token and without a refresh token
\* is a successful refresh: the row takes the new accessToken and expiresAt
\* and keeps its refreshToken.
C7_OmittedRefreshTokenRetained ==
  [][\A p \in Procs :
       \A ans \in ProviderAnswers(procs[p].rtSent) :
         ( /\ RefreshReceiveWith(p, ans)
           /\ ans.resp.kind = "ok"
           /\ ans.resp.access_token # 0
           /\ ans.resp.refresh_token = 0 ) =>
           \A r \in RowsOf(table, procs[p].userId) :
             [r EXCEPT !.accessToken = ans.resp.access_token,
                       !.expiresAt = now + ans.resp.expires_in * 1000] \in table']_vars

\* C8: whenever the accessToken of a row changes, the same step sets its
\* refreshToken and expiresAt to the rotated refresh token and the expiry of
\* the same token response: no state shows the new accessToken with the old
\* refreshToken or the old expiresAt.
C8_AtomicReplace ==
  [][\A r \in table : \A r2 \in table' :
       (r2.id = r.id /\ r2.accessToken # r.accessToken) =>
         \E p \in Procs : \E ans \in ProviderAnswers(procs[p].rtSent) :
           /\ RefreshReceiveWith(p, ans)
           /\ r2.accessToken = ans.resp.access_token
           /\ r2.refreshToken = ans.resp.refresh_token
           /\ r2.refreshToken # r.refreshToken
           /\ r2.expiresAt = now + ans.resp.expires_in * 1000]_vars

\* C8 witness: a refresh has succeeded after the clock advanced; the row
\* holds the access token, the refresh token and the expiry of one response.
C8_Witness ==
  /\ now = ClockStep
  /\ \E r \in table : \E e \in ExpiresInChoices :
       /\ r.accessToken = 2 /\ r.refreshToken = 2
       /\ r.expiresAt = ClockStep + e * 1000

\* C9: the credential table holds at most one row per identityKey.
C9_OneRowPerIdentity ==
  \A r1, r2 \in table : r1.userId = r2.userId => r1 = r2

\* C10: updateAccessToken gives every row of the userId the new accessToken
\* and expiresAt; it leaves the refreshToken as it was when none is passed
\* and replaces it when one is passed; other rows are untouched.
C10_UpdateTokens ==
  [][(lastOp'.op = "update" /\ nOps' = nOps + 1) =>
       table' =
         {IF r.userId = lastOp'.userId
            THEN [r EXCEPT !.accessToken = lastOp'.accessToken,
                           !.expiresAt = lastOp'.expiresAt,
                           !.refreshToken = IF lastOp'.refreshToken = 0
                                              THEN r.refreshToken
                                              ELSE lastOp'.refreshToken]
            ELSE r : r \in table}]_vars

\* C10 witness: updateAccessToken was called without a refresh token on an
\* existing row, which has the new access token and its old refresh token.
C10_Witness ==
  /\ lastOp.op = "update"
  /\ lastOp.refreshToken = 0
  /\ \E r \in table :
       /\ r.userId = lastOp.userId
       /\ r.accessToken = lastOp.accessToken
       /\ r.expiresAt = lastOp.expiresAt
       /\ r.refreshToken # 0

\* --------------------------------------------- the repository, one call at a time
\* no upsertCredentials call is between its findOne and its save
NoUpsertRunning == \A u \in Upserts : upserts[u].pc \in {"idle", "done"}

\* The calls of JiraCredentialRepository made one after the other, as a single
\* caller awaiting each call makes them.
NextStoreSeq ==
  \/ \E u \in Upserts : NoUpsertRunning /\ UpsertCall(u)
  \/ \E u \in Upserts : UpsertFound(u)
  \/ \E u \in Upserts : UpsertSaved(u)
  \/ NoUpsertRunning /\ OpFind
  \/ NoUpsertRunning /\ OpUpdate
  \/ NoUpsertRunning /\ OpDelete

SpecStoreSeq == InitStore /\ [][NextStoreSeq]_vars

\* the four values a caller passed are the four values of credential cred
SameCredentialValues(cred, params) ==
  /\ cred.cloudId = params.cloudId
  /\ cred.accessToken = params.accessToken
  /\ cred.refreshToken = params.refreshToken
  /\ cred.expiresAt = params.expiresAt

C12_ExchangeStopsAtFirstFailure ==
  [][\A c \in Calls :
       calls'[c] # calls[c] =>
         LET call == calls'[c]
         IN /\ call.nGrant <= 1 /\ call.nRes <= 1
            /\ call.nRes = 1 => call.nGrant = 1
            /\ call.pc \in {"resources", "up_find", "up_save"} =>
                 /\ call.tokenData.kind = "ok"
                 /\ call.tokenData.access_token # 0
                 /\ call.tokenData.refresh_token # 0
                 /\ call.nGrant = 1
            /\ call.pc \in {"up_find", "up_save"} =>
                 call.cloudId # "" /\ call.nRes = 1
            /\ call.wrote =>
                 call.status = 200 /\ call.nGrant = 1 /\ call.nRes = 1
            /\ call.error # "none" => ~call.wrote
            /\ (calls[c].pc # "done" /\ call.pc = "done" /\ call.error # "none") =>
                 table' = table
            /\ table' # table => calls[c].pc = "up_save"]_vars

\* C12 witness: a callback got its tokens from the provider, found no
\* accessible resource and ended with that error; nothing was stored.
C12_Witness ==
  /\ table = {}
  /\ tokenGen = 2
  /\ \E c \in Calls :
       /\ calls[c].pc = "done"
       /\ calls[c].error = "authorization"
       /\ calls[c].nGrant = 1 /\ calls[c].nRes = 1

\* callback request c arrives in this step
Arrives(c) == calls[c].pc = "idle" /\ calls'[c].pc # "idle"

\* callback request c was rejected as a CSRF failure: 400, no token request,
\* nothing written
CsrfRejected(call) ==
  /\ call.pc = "done" /\ call.error = "csrf" /\ call.status = 400
  /\ call.nGrant = 0 /\ ~call.wrote

C38_OnePendingNoncePerSession ==
  [][/\ \A sid \in SessionIds :
          (nonceGen' = nonceGen + 1
             /\ sessions'[sid].jiraOAuthState # sessions[sid].jiraOAuthState) =>
            sessions'[sid].jiraOAuthState = nonceGen + 1
     /\ \A c \in Calls :
          Arrives(c) =>
            LET pending == sessions[calls'[c].sid].jiraOAuthState
                presented == calls'[c].returnedState
            IN /\ (presented # 0 /\ presented # pending) => CsrfRejected(calls'[c])
               /\ (presented # 0 /\ presented = pending) => calls'[c].error # "csrf"
     /\ (nonceGen' > 0 /\ \A c \in Calls : calls'[c].returnedState # nonceGen') =>
          \E sid \in SessionIds : sessions'[sid].jiraOAuthState = nonceGen']_vars

\* C14: for each state that install issued, at most one callback presenting
\* it ever starts an authorization-code exchange.
C14_OneExchangePerNonce ==
  \A n \in 1..MaxNonces :
    Cardinality({c \in Calls : calls[c].returnedState = n /\ calls[c].nGrant >= 1}) <= 1

\* C15: a callback that presents the state pending in another session, which
\* is not the state of its own session, is rejected as a CSRF failure: no
\* token request, no credential written, and the state of the other session
\* stays pending.
C15_ForeignNonceRejected ==
  [][\A c \in Calls :
       ( /\ Arrives(c)
         /\ calls'[c].returnedState # 0
         /\ calls'[c].returnedState # sessions[calls'[c].sid].jiraOAuthState
         /\ \E other \in SessionIds \ {calls'[c].sid} :
              sessions[other].jiraOAuthState = calls'[c].returnedState ) =>
         /\ CsrfRejected(calls'[c])
         /\ table' = table
         /\ sessions' = sessions]_vars

\* C15 witness: a callback of one session was rejected having presented the
\* state that is still pending in the other session.
C15_Witness ==
  \E c \in Calls : \E other \in SessionIds :
    /\ CsrfRejected(calls[c])
    /\ other # calls[c].sid
    /\ calls[c].returnedState # 0
    /\ sessions[other].jiraOAuthState = calls[c].returnedState

\* C16: no token value crosses a caller-facing boundary: what handleCallback
\* returns carries no accessToken and no refreshToken, and the body of every
\* callback response contains no token value.
C16_TokensStayInside ==
  \A c \in Calls :
    calls[c].pc = "done" =>
      /\ calls[c].returned.accessToken = 0
      /\ calls[c].returned.refreshToken = 0
      /\ calls[c].bodyTokens = {}

\* C17: the message of an error of the code exchange contains no
\* access-token and no refresh-token value, whatever the provider answered.
C17_NoTokenInErrorMessage ==
  \A c \in Calls : calls[c].error # "none" => calls[c].msgTokens = {}

\* C18: a missing configuration value and a CSRF failure are answered 4xx; an
\* upstream failure and a token response without both tokens are answered 5xx.
C18_ErrorClasses ==
  \A c \in Calls :
    calls[c].pc = "done" =>
      /\ calls[c].error \in {"config", "csrf"} =>
           calls[c].status >= 400 /\ calls[c].status < 500
      /\ calls[c].error \in {"upstream", "protocol"} => calls[c].status >= 500

C20_HandedCredentialIsStored ==
  [][\A p \in Procs :
       ( /\ procs[p].pc = "r_grant" /\ procs[p].caller = "fetch"
         /\ procs'[p].pc = "search"
         /\ table' # table ) =>
         \E r \in RowsOf(table', procs[p].userId) :
           /\ r.accessToken = procs'[p].cred.accessToken
           /\ r.refreshToken = procs'[p].cred.refreshToken
           /\ r.expiresAt = procs'[p].cred.expiresAt]_vars

\* ------------------------------------- ProcessIssuesUseCase.execute on its own
\* the status names an issue object may carry; "" is an object without
\* fields.status.name
TriageStatuses ==
  {"Open", "Resolvido", " RESOLVIDO ", "Cancelado", "Resolved", "RESOLVED", "Done", "",
   "constructor"}

\* the key of the i-th element
IssueKey(i) ==
  CASE i = 1 -> "I1" [] i = 2 -> "I2" [] i = 3 -> "I3" [] OTHER -> "I4"

\* what fields.created of an issue object may be: missing (""), a string
\* that is no date, or an ISO timestamp
TriageCreated ==
  {"", "not a date", "1970-01-01T00:00:00.000Z", "1970-01-02T12:00:00.000Z"}

\* Date.now() at the call: before, just before a day boundary, and at it
TriageClocks == {DayMs, 2 * DayMs - 1, 2 * DayMs}

\* what the i-th element of the array may be
TriageElements(i) ==
  {Issue(IssueKey(i), st, cr) : st \in TriageStatuses, cr \in TriageCreated}
  \cup {[type |-> "null", key |-> "", status |-> "", created |-> ""],
        [type |-> "string", key |-> "", status |-> "", created |-> ""]}

\* the arrays of up to n elements
RECURSIVE TriageArrays(_)
TriageArrays(n) ==
  IF n = 0 THEN {<<>>}
  ELSE LET shorter == TriageArrays(n - 1)
       IN shorter \cup {Append(iss, e) : iss \in {x \in shorter : Len(x) = n - 1},
                                        e \in TriageElements(n)}

\* what execute may be called with: nothing, an object without issues or
\* with issues that is no array, or an array of up to MaxIssues elements
TriageInputs ==
  {NoArg, [present |-> TRUE, isArray |-> FALSE, issues |-> <<>>]}
  \cup {[present |-> TRUE, isArray |-> TRUE, issues |-> iss] :
          iss \in TriageArrays(MaxIssues)}

\* execute(rawJson) is called and returns or throws
ExecuteCall ==
  /\ executeResult = NotReturned
  /\ executeResult' = Execute(executeArg, now)
  /\ UNCHANGED <<table, now, validRT, tokenGen, procs, upserts, lastOp, nOps, authVars,
                 executeArg>>

InitTriage ==
  /\ env = "complete"
  /\ InitAuthIdle
  /\ InitTables
  /\ table = {}
  /\ now \in TriageClocks
  /\ executeArg \in TriageInputs
  /\ executeResult = NotReturned

NextTriage == ExecuteCall

SpecTriage == InitTriage /\ [][NextTriage]_vars

\* the input carries an array whose elements are all issue objects
WellFormed(rawJson) ==
  /\ rawJson.present /\ rawJson.isArray
  /\ \A i \in DOMAIN rawJson.issues : rawJson.issues[i].type = "object"

\* C29: execute never throws, and for every input without a well-formed
\* collection of issues (no input, no issues array, an array with an element
\* that is no issue object) it returns {total: 0, issues: [], statusCounts: {}}.
C29_MalformedGivesEmpty ==
  executeResult # NotReturned =>
    /\ ~executeResult.threw
    /\ ~WellFormed(executeArg) => executeResult = EmptyResult

\* the exclusion set as the specification names it
ExclusionSet == {"resolved", "done", "cancelled"}

\* the keys of the issues of the output
OutputKeys(res) == {res.issues[i].key : i \in DOMAIN res.issues}

\* C30: of a well-formed input, every issue whose trimmed, case-folded status
\* is in {resolved, done, cancelled} ("Resolved" in any letter case among
\* them) is absent from the output issues and its status has no entry in
\* statusCounts, and every other issue is in the output.
C30_ExclusionFilter ==
  (executeResult # NotReturned /\ WellFormed(executeArg)) =>
    \A i \in DOMAIN executeArg.issues :
      LET issue == executeArg.issues[i]
      IN IF Normalize(issue.status) \in ExclusionSet
           THEN /\ issue.key \notin OutputKeys(executeResult)
                /\ issue.status \notin DOMAIN executeResult.statusCounts
           ELSE issue.key \in OutputKeys(executeResult)

\* the element of the input that an item of the output was mapped from
SourceOf(item) ==
  CHOOSE issue \in {executeArg.issues[i] : i \in DOMAIN executeArg.issues} :
    issue.key = item.key

\* the creation timestamp is present and parses as a date
Parses(createdStr) ==
  createdStr \in {"1970-01-01T00:00:00.000Z", "1970-01-02T12:00:00.000Z"}

\* C31: for every retained issue, timeOpenDays is the floor of
\* (now - createdAt) / 86400000 when the creation timestamp parses, and is
\* exactly 0 when the creation timestamp is missing or is a string that
\* cannot be parsed as a date.
C31_AgeDays ==
  (executeResult # NotReturned /\ WellFormed(executeArg)) =>
    \A j \in DOMAIN executeResult.issues :
      LET item == executeResult.issues[j]
          created == SourceOf(item).created
      IN IF Parses(created)
           THEN item.timeOpenDays = Num((now - GetTime(created).v) \div 86400000)
           ELSE item.timeOpenDays = Num(0)

\* the sum of the counts of the statuses in S
RECURSIVE SumCounts(_, _)
SumCounts(counts, S) ==
  IF S = {} THEN 0
  ELSE LET st == CHOOSE x \in S : TRUE
       IN counts[st].v + SumCounts(counts, S \ {st})

\* C32: statusCounts is exactly the histogram of the output items: for every
\* status s, statusCounts[s] is the number of output items whose status is s,
\* no key has a count of 0, the counts sum to total, and total is the number
\* of output items.
C32_CountsAreHistogram ==
  (executeResult # NotReturned /\ ~executeResult.threw) =>
    LET items == executeResult.issues
        counts == executeResult.statusCounts
        Occurrences(st) == Cardinality({j \in DOMAIN items : items[j].status = st})
    IN /\ executeResult.total = Len(items)
       /\ \A j \in DOMAIN items : items[j].status \in DOMAIN counts
       /\ \A st \in DOMAIN counts :
            counts[st] = Num(Occurrences(st)) /\ Occurrences(st) > 0
       /\ SumCounts(counts, DOMAIN counts) = executeResult.total

\* ----------------------------------------- the invocations, one at a time
\* no trigger invocation and no on-demand fetch is running
NoInvocationRunning == \A p \in Procs : procs[p].pc \in {"idle", "done"}

\* Every step of an invocation, the post-actions included, with the next
\* invocation starting after the one before has ended. The calls of
\* performPostActions read and write nothing that another invocation reads
\* or writes.
NextBatch ==
  \/ \E p \in Procs : NoInvocationRunning /\ Start(p)
  \/ \E p \in Procs : CheckFound(p)
  \/ \E p \in Procs : FetchFound(p)
  \/ \E p \in Procs : RefreshFound(p)
  \/ \E p \in Procs : RefreshReceive(p)
  \/ \E p \in Procs : SearchReceive(p)
  \/ \E p \in Procs : PostReceive(p)

SpecBatch == Init /\ [][NextBatch]_vars

\* C22: the calls of performPostActions for one issue are sent in the order
\* custom-field update, transition 11, transition 131, comment: the first
\* call for an issue is the field update, and each later call is sent in the
\* step in which the call before it completed.
C22_PostActionsInOrder ==
  [][\A p \in Procs :
       (Moved(p) /\ procs'[p].pc = "post") =>
         LET sent == PostCall(procs'[p].step)
             prev == PostCall(procs[p].step)
         IN IF procs[p].pc = "post" /\ procs'[p].todo = procs[p].todo
              THEN \/ /\ prev.payload = "customfield_11231"
                      /\ sent = [path |-> "/transitions", payload |-> "11"]
                   \/ /\ prev.payload = "11"
                      /\ sent = [path |-> "/transitions", payload |-> "131"]
                   \/ /\ prev.payload = "131"
                      /\ sent = [path |-> "/comment", payload |-> "body"]
              ELSE sent = [path |-> "", payload |-> "customfield_11231"]]_vars

\* C22 witness: the comment of the second open issue of a batch is in flight,
\* its three earlier calls having completed.
C22_Witness ==
  \E p \in Procs :
    /\ procs[p].pc = "post"
    /\ procs[p].todo = <<"K5">>
    /\ procs[p].step = LastPostStep

\* C23: a step of the post-actions never ends the fetch with an error and
\* never changes the credential table: after it the same issue has its next
\* call in flight, or the next open issue of the batch has its first call in
\* flight (after a failure at any call, or after the comment), or the batch
\* is over and the fetch returned its result. No call is sent again.
C23_PostFailureSwallowed ==
  [][\A p \in Procs :
       (procs[p].pc = "post" /\ Moved(p)) =>
         /\ table' = table
         /\ procs'[p].pc \in {"post", "done"}
         /\ procs'[p].pc = "done" =>
              procs'[p].outcome = "ok" /\ Len(procs[p].todo) = 1
         /\ procs'[p].pc = "post" =>
              \/ /\ procs'[p].todo = procs[p].todo
                 /\ procs'[p].step = procs[p].step + 1
                 /\ procs'[p].failed = procs[p].failed
              \/ /\ procs'[p].todo = Tail(procs[p].todo)
                 /\ procs'[p].step = 1
                 /\ procs'[p].failed \in
                      {procs[p].failed, procs[p].failed \cup {Head(procs[p].todo)}}]_vars

\* C23 witness: the post-actions of the first open issue failed (it is in the
\* log), and the second open issue has its calls under way.
C23_Witness ==
  \E p \in Procs :
    /\ procs[p].pc = "post"
    /\ procs[p].failed = {"K4"}
    /\ procs[p].todo = <<"K5">>
    /\ procs[p].step = 2

\* the status names of the model that, lower-cased, contain "open" or "aberto"
NamesAnOpenStatus(status) == status \in {"Open", "Reopened", "Em Aberto"}

\* the keys of the items of a triage output whose status names an open one,
\* in output order
MatchingKeys(items) ==
  LET Matches(item) == NamesAnOpenStatus(item.status)
      matching == SelectSeq(items, Matches)
  IN [i \in 1..Len(matching) |-> matching[i].key]

\* C34: post-actions are applied exactly to the issues of the triage output
\* whose status, lower-cased, contains "open" or "aberto": when the search
\* of a fetch is answered, the issues queued for post-actions are the
\* matching items of the output of execute, in output order (none when no
\* item matches), and from then on calls are sent only for the first issue
\* of the queue, which leaves the queue when its sequence is over and never
\* comes back.
C34_PostActionsOnOpenIssuesOnly ==
  [][\A p \in Procs :
       /\ (procs[p].pc = "search" /\ Moved(p)) =>
            \/ procs'[p].pc = "done" /\ procs'[p].outcome # "ok"
            \/ \E body \in SearchPayloads :
                 LET result == Execute(body, now)
                     queue == MatchingKeys(result.issues)
                 IN /\ ~result.threw
                    /\ IF queue = <<>>
                         THEN procs'[p].pc = "done" /\ procs'[p].outcome = "ok"
                         ELSE /\ procs'[p].pc = "post"
                              /\ procs'[p].todo = queue
                              /\ procs'[p].step = 1
       /\ (procs[p].pc = "post" /\ Moved(p)) =>
            \/ procs'[p].pc = "post" /\ procs'[p].todo = procs[p].todo
            \/ procs'[p].pc = "post" /\ procs'[p].todo = Tail(procs[p].todo)
            \/ procs'[p].pc = "done" /\ Tail(procs[p].todo) = <<>>
       /\ (procs[p].pc # "search" /\ Moved(p) /\ procs'[p].pc = "post") =>
            procs[p].pc = "post"]_vars

\* C34 witness: of a search result with an issue in progress and a reopened
\* one, only the reopened issue has its post-actions under way.
C34_Witness ==
  \E p \in Procs :
    /\ procs[p].pc = "post"
    /\ procs[p].todo = <<"K6">>
    /\ procs[p].step = 3

\* C35: the calls sent for one issue are a prefix of (field update,
\* transition 11, transition 131, comment): call k + 1 is sent only in the
\* step in which call k of the same issue completed without failing, and once
\* a call of an issue failed no call is in flight for that issue again.
C35_CallsSentArePrefix ==
  [][\A p \in Procs :
       /\ (procs[p].pc = "post" /\ Moved(p)) =>
            LET issueKey == Head(procs[p].todo)
                failedNow == issueKey \in procs'[p].failed
            IN /\ failedNow =>
                    \/ procs'[p].pc = "done"
                    \/ /\ procs'[p].pc = "post"
                       /\ procs'[p].step = 1
                       /\ \A i \in DOMAIN procs'[p].todo : procs'[p].todo[i] # issueKey
               /\ (procs'[p].pc = "post" /\ procs'[p].step > 1) =>
                    /\ ~failedNow
                    /\ Head(procs'[p].todo) = issueKey
                    /\ procs'[p].step = procs[p].step + 1
                    /\ procs'[p].step <= 4
       /\ procs'[p].pc = "post" => Head(procs'[p].todo) \notin procs'[p].failed]_vars

\* C35 witness: a call of the first open issue failed, its sequence was cut
\* there, and the field update of the second open issue is in flight.
C35_Witness ==
  \E p \in Procs :
    /\ procs[p].pc = "post"
    /\ procs[p].failed = {"K4"}
    /\ procs[p].todo = <<"K5">>
    /\ procs[p].step = 1

\* C37: one invocation of handleInterval that runs with no concurrent
\* activity posts at most one refresh-token grant, although it checks
\* freshness twice (in checkAndRefreshToken, then in fetchAndProcessIssues),
\* also when its first grant failed.
C37_OneGrantPerTick ==
  \A p \in Procs : procs[p].kind = "interval" => procs[p].grants <= 1

\* C24: whenever a call of the post-actions is sent, the bearer token it
\* carries is the accessToken of the credential row of the identity at that
\* moment.
C24_PostCarriesCurrentToken ==
  [][\A p \in Procs :
       (Moved(p) /\ procs'[p].pc = "post" /\ RowsOf(table', procs'[p].userId) # {}) =>
         \E r \in RowsOf(table', procs'[p].userId) :
           r.accessToken = procs'[p].cred.accessToken]_vars

\* C25: an invocation of a scheduled trigger never ends by throwing out of
\* its callback: whatever failed inside, handleInterval and
\* checkAndRefreshToken return normally.
C25_TriggerFailureContained ==
  [][\A p \in Procs :
       (procs[p].kind \in {"interval", "check"} /\ procs'[p].pc = "done") =>
         procs'[p].outcome = "ok"]_vars

\* C26: at most one invocation of each scheduled trigger is running.
C26_NoTriggerOverlap ==
  \A kind \in {"interval", "check"} :
    Cardinality({p \in Procs : procs[p].kind = kind
                               /\ procs[p].pc \notin {"idle", "done"}}) <= 1

\* C28: an on-demand fetch that finds no credential, whose refresh failed, or
\* whose search failed is answered with a 5xx status in the step of that
\* failure, and a failed search is followed by no post-action.
C28_FetchFailuresAre5xx ==
  [][\A p \in Procs :
       (procs[p].kind = "fetch" /\ Moved(p)) =>
         /\ (procs[p].pc = "fch_find" /\ RowsOf(table, procs[p].userId) = {}) =>
              procs'[p].pc = "done" /\ FetchStatus(procs'[p].outcome) >= 500
         /\ (procs[p].pc = "r_find" /\ RowsOf(table, procs[p].userId) = {}) =>
              procs'[p].pc = "done" /\ FetchStatus(procs'[p].outcome) >= 500
         /\ procs[p].pc = "r_grant" =>
              \A ans \in ProviderAnswers(procs[p].rtSent) :
                (RefreshReceiveWith(p, ans) /\ GrantFailed(ans.resp)) =>
                  procs'[p].pc = "done" /\ FetchStatus(procs'[p].outcome) >= 500
         /\ (procs[p].pc = "search" /\ procs'[p].outcome = "search_failed") =>
              procs'[p].pc = "done" /\ FetchStatus(procs'[p].outcome) >= 500]_vars

\* ------------------------------------------ a provider that accepts the grants
\* The answers of a provider that works: a grant presenting a refresh token
\* it accepts gets a new pair of tokens with a lifetime of at least the
\* refresh buffer; a grant presenting any other token is refused.
AcceptingAnswers(rt) ==
  {ans \in ProviderAnswers(rt) :
     IF rt \in validRT
       THEN /\ ans.resp.kind = "ok"
            /\ ans.resp.access_token # 0 /\ ans.resp.refresh_token # 0
            /\ ans.resp.expires_in * 1000 >= REFRESH_BUFFER_MS
       ELSE ans.resp.kind = "err"}

\* refreshAccessToken after `await post(...)`, answered by that provider
RefreshReceiveAccepting(p) ==
  \E ans \in AcceptingAnswers(procs[p].rtSent) : RefreshReceiveWith(p, ans)

\* The triggers and the on-demand fetch against that provider, the credential
\* of 'default' being stored and never removed; the clock is free.
NextAccepting ==
  \/ \E p \in Procs : Start(p)
  \/ \E p \in Procs : CheckFound(p)
  \/ \E p \in Procs : FetchFound(p)
  \/ \E p \in Procs : RefreshFound(p)
  \/ \E p \in Procs : RefreshReceiveAccepting(p)
  \/ \E p \in Procs : SearchAndPostActions(p)
  \/ Tick

InitAccepting == Init /\ table # {}

SpecAccepting == InitAccepting /\ [][NextAccepting]_vars

\* C27 (the search after a refresh): whenever a search request is sent, the
\* access token it carries is the one stored for the identity at that moment,
\* so a search sent after a successful refresh carries the new access token.
C27_SearchCarriesRefreshedToken ==
  [][\A p \in Procs :
       (procs[p].pc # "search" /\ procs'[p].pc = "search") =>
         \E r \in RowsOf(table', procs'[p].userId) :
           r.accessToken = procs'[p].cred.accessToken]_vars

\* ------------------------------- authorization, then the triggers, over time
\* no callback request is being handled and no invocation is running
Quiet ==
  /\ NoInvocationRunning
  /\ \A c \in Calls : calls[c].pc \in {"idle", "done"}

\* time passes between the requests and the ticks, a refresh buffer at a time
TickQuiet ==
  /\ Quiet
  /\ now < MaxClock * REFRESH_BUFFER_MS
  /\ now' = now + REFRESH_BUFFER_MS
  /\ UNCHANGED <<table, validRT, tokenGen, procs, upserts, lastOp, nOps, authVars,
                 triageVars>>

\* The life of a credential: it is stored by an authorization and then used
\* and refreshed by the triggers and the on-demand fetch while time passes;
\* each request and each invocation runs to its end before the next starts.
\* The authorizations are those of one browser that comes back from the
\* consent page with the state it was given and whose code the provider
\* accepts, and every use is for 'default', the identity the authorization
\* stores. The refresh grants are answered in every way.
NextLifecycle ==
  \/ Quiet /\ Install /\ sessions'["s2"] = sessions["s2"]
  \/ \E c \in Calls : Quiet /\ CallbackArrive(c) /\ calls'[c].error # "csrf"
  \/ \E c \in Calls : TokenReceive(c) /\ calls'[c].error = "none"
  \/ \E c \in Calls : ResourcesReceive(c) /\ calls'[c].error = "none"
  \/ \E c \in Calls : CallbackUpsertFound(c)
  \/ \E c \in Calls : CallbackUpsertSaved(c)
  \/ \E p \in Procs : Quiet /\ Start(p) /\ procs'[p].userId = DefaultUser
  \/ \E p \in Procs : CheckFound(p)
  \/ \E p \in Procs : FetchFound(p)
  \/ \E p \in Procs : RefreshFound(p)
  \/ \E p \in Procs : RefreshReceive(p)
  \/ \E p \in Procs : SearchAndPostActions(p)
  \/ TickQuiet

\* nothing is stored before the first authorization
InitLifecycle == Init /\ table = {}

SpecLifecycle == InitLifecycle /\ [][NextLifecycle]_vars

NextAdmin ==
  \/ NextLifecycle
  \/ AdminDelete

SpecAdmin == Init /\ [][NextAdmin]_vars

\* C33: a credential is never removed by the system itself: no step of a
\* scheduled tick, of an on-demand fetch, of a refresh (successful or failed)
\* or of an authorization leaves an identity that had a credential without
\* one; the only step that does is an explicit deleteByUserId of that
\* identity, which is no step of any of them.
C33_NeverRemovedBySystem ==
  [][\A userId \in UserIds :
       (RowsOf(table, userId) # {} /\ RowsOf(table', userId) = {}) =>
         /\ table' = {r \in table : r.userId # userId}
         /\ procs' = procs /\ calls' = calls /\ sessions' = sessions
         /\ tokenGen' = tokenGen /\ validRT' = validRT /\ now' = now]_vars

\* C33 witness: the credential that an authorization created (cloudId T2,
\* token 2) has since been through a re-authorization and, after the clock
\* advanced, through the triggers and a successful refresh, and it is still
\* found for 'default'.
C33_Witness ==
  /\ \A c \in Calls : calls[c].status = 200
  /\ \A p \in Procs : procs[p].pc = "done"
  /\ now > 0
  /\ tokenGen = MaxCalls + 2
  /\ \E r \in RowsOf(table, DefaultUser) :
       r.cloudId = "T2" /\ r.accessToken = tokenGen

\* the identity and the tenant of each row
Tenancy(tbl) == {<<r.id, r.userId, r.cloudId>> : r \in tbl}

\* C36: a refresh never changes the cloudId or the userId of a credential
\* row: the step in which refreshAccessToken receives the answer to its
\* grant and writes the new tokens leaves the identity and the tenant of
\* every row as they were, no step changes the userId of a row, and the
\* cloudId of a row changes only in the step in which the upsert of an
\* authorization callback saves it.
C36_RefreshKeepsTenant ==
  [][/\ \A p \in Procs :
          (procs[p].pc = "r_grant" /\ Moved(p)) => Tenancy(table') = Tenancy(table)
     /\ \A r \in table : \A r2 \in table' :
          r2.id = r.id =>
            /\ r2.userId = r.userId
            /\ r2.cloudId # r.cloudId =>
                 \E c \in Calls :
                   /\ calls[c].pc = "up_save" /\ calls'[c].pc = "done"
                   /\ r2.cloudId = calls[c].cloudId]_vars

\* C36 witness: the credential stored for tenant T1 has been refreshed (it
\* holds the second token pair) and is still of tenant T1 and of 'default'.
C36_Witness ==
  /\ \E r \in table :
       /\ r.userId = DefaultUser /\ r.cloudId = "T1"
       /\ r.accessToken = 2 /\ r.refreshToken = 2
  /\ \E p \in Procs : procs[p].pc = "done"
  /\ \A c \in Calls : calls[c].pc = "idle"

\* C39: a refresh whose grant is answered after the credential of its
\* identity was deleted does not recreate a row: the step in which
\* refreshAccessToken handles the answer, taken while no row of the identity
\* exists, leaves the table as it is, and findByUserId of the identity still
\* returns no credential after it.
C39_DeletedNotRecreated ==
  [][\A p \in Procs :
       (procs[p].pc = "r_grant" /\ procs'[p].pc # "r_grant"
          /\ RowsOf(table, procs[p].userId) = {}) =>
         /\ table' = table
         /\ FindByUserId(table', procs[p].userId) = {NoCred}]_vars

\* A fetch whose refresh returned the newest token pair goes on to its
\* search while the table holds no row and no callback is being served.
C39_Witness ==
  /\ table = {}
  /\ tokenGen > 1
  /\ \A c \in Calls : calls[c].pc = "idle"
  /\ \E p \in Procs :
       /\ procs[p].pc = "search"
       /\ procs[p].userId = DefaultUser
       /\ procs[p].cred.accessToken = tokenGen
       /\ procs[p].cred.refreshToken = tokenGen

====
